---- MODULE Spec2Model ----
(***************************************************************************)
(* Model of the PDF-to-page-dictionary pipeline of utils.py /              *)
(* main_cron.py: the repetition counter (prepare_counter), the document    *)
(* assembler (create_parsed_dictionary) with its Table branch, and the     *)
(* table reconstruction (parse_cells, create_expanded_dataframe).          *)
(*                                                                         *)
(* Python strings that are built by concatenation (a page's content) are   *)
(* sequences of tokens; a string is empty iff its sequence is empty.       *)
(* The page key f"page_{n}" is represented by the number n.                *)
(***************************************************************************)
EXTENDS Integers, Sequences, FiniteSets, TLC

VARIABLES
    elements,      \* the element stream returned by partition_pdf
    all_counter,   \* the Counter returned by prepare_counter
    parsed_doc,    \* the insertion-ordered dict: sequence of [key, value]
    curr_page,     \* the current page key (n stands for "page_<n>")
    page_number,   \* the current page number
    idx,           \* number of elements the for loop has consumed
    pc,            \* "start" | "loop" | "returned" | "raised" | "grid"
    exc,           \* the exception that left the function, or "none"
    output_png,    \* TRUE iff the file output.png exists
    last_resp,     \* what the collaborators answered for the last Table element
    raw_cells,     \* create_expanded_dataframe study: the raw cell records
    cells,         \* the tuples parse_cells returned
    table,         \* the grid under construction (list of lists)
    cell_i,        \* number of cells the expansion loop has applied
    df,            \* the returned DataFrame: [columns, rows]
    gpc,           \* "parse" | "init" | "fill" | "split" | "done" | "raised" | "idle"
    pd_parsed_doc,   \* parse_document.py's create_parsed_dictionary: its parsed_doc
    pd_curr_page,    \* ... its curr_page
    pd_page_number,  \* ... its page_number
    pd_idx,          \* ... number of elements its for loop has consumed
    pd_pc,           \* ... "idle" | "call" | "loop" | "returned" | "raised"
    pd_exc,          \* ... the exception that left it, or "none"
    clean_in,      \* clean_text study: the argument
    clean_once,    \* clean_text(clean_in)
    clean_twice,   \* clean_text(clean_text(clean_in))
    cpc            \* "idle" | "first" | "second" | "done"

vars == <<elements, all_counter, parsed_doc, curr_page, page_number, idx, pc, exc,
          output_png, last_resp, raw_cells, cells, table, cell_i, df, gpc,
          pd_parsed_doc, pd_curr_page, pd_page_number, pd_idx, pd_pc, pd_exc,
          clean_in, clean_once, clean_twice, cpc>>

gridVars == <<raw_cells, cells, table, cell_i, df, gpc>>

pdVars == <<pd_parsed_doc, pd_curr_page, pd_page_number, pd_idx, pd_pc, pd_exc>>

cleanVars == <<clean_in, clean_once, clean_twice, cpc>>

----------------------------------------------------------------------------
(* Bounds of the model.                                                    *)

MaxLen == 2        \* longest free-form element stream
MaxPad == 10       \* most repetitions of the padding element of a padded stream
MaxPage == 2       \* largest metadata.page_number of a Table element
MaxTables == 2     \* most tables in one detection response
MaxCells == 2      \* most raw cells in the table-reconstruction study
MaxDim == 2        \* largest anchor row / column of a raw cell
MaxStr == 4        \* longest string handed to clean_text in its study

(* Program constants.                                                      *)

RepeatLimit == 10  \* all_counter[el.text] < 10

----------------------------------------------------------------------------
(* Python values.                                                          *)

None == "None"                       \* a missing el.text
Texts == {"a", "b"}                  \* element texts (non-empty strings)
NL == "\n"
SP == " "

Max(a, b) == IF a < b THEN b ELSE a

RECURSIVE SeqMax(_)
SeqMax(s) == IF Len(s) = 1 THEN s[1] ELSE Max(s[1], SeqMax(Tail(s)))

(* A token of a page's content: a piece of text, or a rendered table.      *)
StrTok(s) == [kind |-> "str", text |-> s, columns |-> <<>>, rows |-> <<>>]
TableTok(d) == [kind |-> "table", text |-> "", columns |-> d.columns, rows |-> d.rows]

(* An element of the stream.                                               *)
El(cat, txt, pn) == [category |-> cat, text |-> txt, page_number |-> pn]

----------------------------------------------------------------------------
(* The insertion-ordered dict parsed_doc.                                  *)

Keys(doc) == {doc[i].key : i \in 1..Len(doc)}

KeyIndex(doc, k) == CHOOSE i \in 1..Len(doc) : doc[i].key = k

DictGet(doc, k) == doc[KeyIndex(doc, k)].value

(* doc[k] = v : an existing key keeps its position, a new key goes last.   *)
DictSet(doc, k, v) ==
    IF k \in Keys(doc)
    THEN [doc EXCEPT ![KeyIndex(doc, k)].value = v]
    ELSE Append(doc, [key |-> k, value |-> v])

(* doc[k] += s *)
DictAppend(doc, k, tok) == DictSet(doc, k, Append(DictGet(doc, k), tok))

----------------------------------------------------------------------------
(* prepare_counter.                                                        *)

RECURSIVE TextsOf(_, _)
TextsOf(els, cat) ==
    IF els = <<>> THEN <<>>
    ELSE IF els[1].category = cat
         THEN <<els[1].text>> \o TextsOf(Tail(els), cat)
         ELSE TextsOf(Tail(els), cat)

(* Counter(list): one key per distinct item, valued by its multiplicity.   *)
RECURSIVE Counter(_)
Counter(list) ==
    IF list = <<>> THEN [t \in {} |-> 0]
    ELSE LET c == Counter(Tail(list))
             t == list[1]
         IN  [u \in DOMAIN c \cup {t} |->
                 IF u = t THEN (IF t \in DOMAIN c THEN c[t] + 1 ELSE 1) ELSE c[u]]

prepare_counter_NoText(els) ==
    Counter(TextsOf(els, "Title") \o TextsOf(els, "NarrativeText"))

prepare_counter(els) ==
    LET titles_text == TextsOf(els, "Title")
        text_text == TextsOf(els, "Text")
        narrtext_text == TextsOf(els, "NarrativeText")
        all_text == titles_text \o narrtext_text \o text_text
    IN  Counter(all_text)

(* all_counter[t] : a Counter answers 0 for a missing key, adding nothing. *)
CounterGet(c, t) == IF t \in DOMAIN c THEN c[t] ELSE 0

(* The counter after the evaluation of all_counter[t], had the lookup of a *)
(* missing key stored it (as a defaultdict does).                          *)
AfterLookup_StoresMissing(c, t) ==
    [u \in DOMAIN c \cup {t} |-> IF u \in DOMAIN c THEN c[u] ELSE 0]

(* The counter after the evaluation of all_counter[t]: Counter.__missing__ *)
(* returns 0 and stores nothing.                                           *)
AfterLookup(c, t) == c

----------------------------------------------------------------------------
(* The frequency filter of create_parsed_dictionary.                       *)

Keep_OffByOne(count) == count <= RepeatLimit /\ count # 0

Keep(count) == count < RepeatLimit /\ count # 0

----------------------------------------------------------------------------
(* Strings of the table pipeline are sequences of one-character strings.   *)

Whitespace == {" ", "\n", "\t"}

RECURSIVE LStrip(_)
LStrip(s) == IF s # <<>> /\ s[1] \in Whitespace THEN LStrip(Tail(s)) ELSE s

RECURSIVE RStrip(_)
RStrip(s) ==
    IF s # <<>> /\ s[Len(s)] \in Whitespace THEN RStrip(SubSeq(s, 1, Len(s) - 1)) ELSE s

(* str.strip() *)
Strip(s) == RStrip(LStrip(s))

(* str.replace('\n', ' ') *)
ReplaceNewline(s) == [i \in 1..Len(s) |-> IF s[i] = "\n" THEN " " ELSE s[i]]

(* The length of the leading run of non-whitespace characters of s.       *)
RECURSIVE WordLen(_)
WordLen(s) ==
    IF s = <<>> \/ s[1] \in Whitespace THEN 0 ELSE 1 + WordLen(Tail(s))

(* str.split() : the maximal runs of non-whitespace characters.            *)
RECURSIVE Split(_)
Split(s) ==
    LET t == LStrip(s)
        n == WordLen(t)
    IN  IF t = <<>> THEN <<>>
        ELSE <<SubSeq(t, 1, n)>> \o Split(SubSeq(t, n + 1, Len(t)))

(* ' '.join(words) *)
RECURSIVE Join(_)
Join(words) ==
    IF words = <<>> THEN <<>>
    ELSE IF Len(words) = 1 THEN words[1]
    ELSE words[1] \o <<" ">> \o Join(Tail(words))

(* A Python value handed to clean_text: a str (its characters) or not.     *)
PyStr(s) == [isstr |-> TRUE, chars |-> s]
NotAStr == [isstr |-> FALSE, chars |-> <<>>]

(* The isinstance(text, str) branch, without the collapse of the runs.     *)
CleanStr_NoCollapse(text) == Strip(ReplaceNewline(text))

(* The isinstance(text, str) branch.                                       *)
CleanStr(text) == Strip(Join(Split(ReplaceNewline(text))))

clean_text(v) == IF v.isstr THEN PyStr(CleanStr(v.chars)) ELSE v

----------------------------------------------------------------------------
(* parse_cells.  A raw cell is the detector's object; str(cell) is         *)
(* "<Cell: (row,col), Span: (rowspan, colspan), ...>" followed by the text. *)
(* `matches` tells whether the regular expression matches that string.     *)

RawCell(m, r, c, rs, cs, t) ==
    [matches |-> m, row |-> r, col |-> c, rowspan |-> rs, colspan |-> cs, text |-> t]

(* str(cell).split('>')[1] : what follows the header's '>' up to the next  *)
(* '>' of the string.                                                      *)
RECURSIVE UpToGt(_)
UpToGt(s) == IF s = <<>> \/ s[1] = ">" THEN <<>> ELSE <<s[1]>> \o UpToGt(Tail(s))

ParseCell(cell) == <<cell.row, cell.col, cell.rowspan, cell.colspan, Strip(UpToGt(cell.text))>>

(* [exc, cells]: match.groups() on the None of a failed match raises       *)
(* AttributeError at the first such cell.                                  *)
RECURSIVE parse_cells(_)
parse_cells(raw) ==
    IF raw = <<>> THEN [exc |-> "none", cells |-> <<>>]
    ELSE IF ~raw[1].matches THEN [exc |-> "AttributeError", cells |-> <<>>]
    ELSE LET rest == parse_cells(Tail(raw))
         IN  IF rest.exc # "none" THEN rest
             ELSE [exc |-> "none", cells |-> <<ParseCell(raw[1])>> \o rest.cells]

----------------------------------------------------------------------------
(* create_expanded_dataframe.                                              *)

max_row(cs) == SeqMax([i \in 1..Len(cs) |-> cs[i][1]])
max_col(cs) == SeqMax([i \in 1..Len(cs) |-> cs[i][2]])

(* [['' for _ in range(max_col)] for _ in range(max_row)] *)
EmptyTable(nrows, ncols) == [i \in 1..nrows |-> [j \in 1..ncols |-> <<>>]]

NRows(tbl) == Len(tbl)
NCols(tbl) == IF tbl = <<>> THEN 0 ELSE Len(tbl[1])

(* The list indices (0-based) the two inner loops of one cell write to.    *)
Targets_NoAnchorShift(cell) ==
    {<<cell[1] + r, cell[2] + c>> : r \in 0..(cell[3] - 1), c \in 0..(cell[4] - 1)}

Targets(cell) ==
    {<<cell[1] - 1 + r, cell[2] - 1 + c>> : r \in 0..(cell[3] - 1), c \in 0..(cell[4] - 1)}

(* A list index i of a list of length n: valid iff -n <= i < n; a negative *)
(* index counts from the end.                                              *)
InRange(i, n) == -n <= i /\ i < n
Norm(i, n) == IF i < 0 THEN i + n ELSE i

(* One iteration of `for cell in cells`: every target is assigned the      *)
(* cell's text; a target outside the lists raises IndexError.              *)
ApplyCell(tbl, cell) ==
    IF \E t \in Targets(cell) : ~InRange(t[1], NRows(tbl)) \/ ~InRange(t[2], NCols(tbl))
    THEN [exc |-> "IndexError", table |-> <<>>]
    ELSE [exc |-> "none",
          table |-> [i \in 1..NRows(tbl) |-> [j \in 1..NCols(tbl) |->
                        IF \E t \in Targets(cell) : /\ Norm(t[1], NRows(tbl)) = i - 1
                                                    /\ Norm(t[2], NCols(tbl)) = j - 1
                        THEN cell[5] ELSE tbl[i][j]]]]

RECURSIVE ApplyCells(_, _)
ApplyCells(tbl, cs) ==
    IF cs = <<>> THEN [exc |-> "none", table |-> tbl]
    ELSE LET one == ApplyCell(tbl, cs[1])
         IN  IF one.exc # "none" THEN one ELSE ApplyCells(one.table, Tail(cs))

(* The same without df.drop(0): the header row stays among the data rows.  *)
SplitHeader_KeepsHeaderRow(tbl) == [columns |-> tbl[1], rows |-> tbl]

(* df.columns = df.iloc[0]; df = df.drop(0).reset_index(drop=True) *)
SplitHeader(tbl) == [columns |-> tbl[1], rows |-> Tail(tbl)]

NoFrame == [columns |-> <<>>, rows |-> <<>>]

(* [exc, df]: max() of an empty sequence raises ValueError.                *)
create_expanded_dataframe(cs) ==
    IF cs = <<>> THEN [exc |-> "ValueError", df |-> NoFrame]
    ELSE LET filled == ApplyCells(EmptyTable(max_row(cs), max_col(cs)), cs)
         IN  IF filled.exc # "none" THEN [exc |-> filled.exc, df |-> NoFrame]
             ELSE [exc |-> "none", df |-> SplitHeader(filled.table)]

(* df.applymap(clean_text) and the cleaned column labels.                  *)
CleanFrame(d) ==
    [columns |-> [j \in 1..Len(d.columns) |-> clean_text(PyStr(d.columns[j])).chars],
     rows |-> [i \in 1..Len(d.rows) |->
                 [j \in 1..Len(d.rows[i]) |-> clean_text(PyStr(d.rows[i][j])).chars]]]

----------------------------------------------------------------------------
(* The Table branch of create_parsed_dictionary.                           *)

(* What the two collaborators answer for one Table element:                *)
(* extract_page_as_image fails ("render_failed"), analyze_document fails   *)
(* ("detect_failed"), or document.tables is `tables`.                      *)
Response(st, ts) == [status |-> st, tables |-> ts]

NoResponse == Response("none", <<>>)

(* for k in range(len(document.tables)): parse, expand, clean, render and  *)
(* append; an exception leaves the loop with what was appended so far.     *)
RECURSIVE RenderTables(_, _, _)
RenderTables(doc, cp, tables) ==
    IF tables = <<>> THEN [exc |-> "none", doc |-> doc]
    ELSE LET parsed == parse_cells(tables[1])
             frame == create_expanded_dataframe(parsed.cells)
         IN  IF parsed.exc # "none" THEN [exc |-> parsed.exc, doc |-> doc]
             ELSE IF frame.exc # "none" THEN [exc |-> frame.exc, doc |-> doc]
             ELSE RenderTables(
                      DictAppend(DictAppend(doc, cp, TableTok(CleanFrame(frame.df))),
                                 cp, StrTok(NL)),
                      cp, Tail(tables))

(* The branch without its leading newline.                                 *)
TableBranch_NoSeparator(doc, cp, resp) ==
    LET rendered == RenderTables(doc, cp, resp.tables)
    IN  IF resp.status = "render_failed"
        THEN [exc |-> "RenderError", doc |-> doc, png |-> FALSE]
        ELSE IF resp.status = "detect_failed"
        THEN [exc |-> "ExternalServiceError", doc |-> doc, png |-> TRUE]
        ELSE IF rendered.exc # "none"
        THEN [exc |-> rendered.exc, doc |-> rendered.doc, png |-> TRUE]
        ELSE [exc |-> "none", doc |-> rendered.doc, png |-> FALSE]

(* page_number = el.metadata.page_number, and the same left undone.        *)
TablePage_KeepsCounter(e, pn) == pn

TablePage(e, pn) == e.page_number

(* [exc, doc, png]: the whole branch for one element and one response.     *)
TableBranch(doc, cp, resp) ==
    LET doc1 == DictAppend(doc, cp, StrTok(NL))
        rendered == RenderTables(doc1, cp, resp.tables)
    IN  IF resp.status = "render_failed"
        THEN [exc |-> "RenderError", doc |-> doc1, png |-> FALSE]
        ELSE IF resp.status = "detect_failed"
        THEN [exc |-> "ExternalServiceError", doc |-> doc1, png |-> TRUE]
        ELSE IF rendered.exc # "none"
        THEN [exc |-> rendered.exc, doc |-> rendered.doc, png |-> TRUE]
        ELSE [exc |-> "none", doc |-> rendered.doc, png |-> FALSE]

----------------------------------------------------------------------------
(* The text branches.                                                      *)

(* parsed_doc[curr_page] += el.text; parsed_doc[curr_page] += sep.         *)
(* str + None raises TypeError before anything is stored.                  *)
AppendText(doc, cp, text, sep) ==
    IF text = None THEN [exc |-> "TypeError", doc |-> doc]
    ELSE [exc |-> "none",
          doc |-> DictAppend(DictAppend(doc, cp, StrTok(text)), cp, StrTok(sep))]

Unchanged(doc) == [exc |-> "none", doc |-> doc]

FilteredBranch(doc, cp, text, sep, counter) ==
    IF Keep(CounterGet(counter, text)) THEN AppendText(doc, cp, text, sep)
    ELSE Unchanged(doc)

TitleBranch_AlwaysFiltered(doc, cp, pn, text, counter) ==
    FilteredBranch(doc, cp, text, NL, counter)

TitleBranch(doc, cp, pn, text, counter) ==
    IF pn = 1 THEN AppendText(doc, cp, text, NL)
    ELSE FilteredBranch(doc, cp, text, NL, counter)

(* parsed_doc = {k: v for k, v in parsed_doc.items() if v} *)
Prune_DropNothing(doc) == doc

Prune(doc) == SelectSeq(doc, LAMBDA item : item.value # <<>>)

----------------------------------------------------------------------------
(* The inputs.                                                             *)

TextCategories == {"ListItem", "NarrativeText", "Text", "Title"}

Alphabet ==
    {El("PageBreak", "", 0)}
    \cup {El(c, t, 0) : c \in TextCategories, t \in {"a", None}}
    \cup {El(c, "b", 0) : c \in {"Text", "Title"}}
    \cup {El("Table", "", p) : p \in 1..MaxPage}
    \cup {El("Header", "a", 0)}

SeqsUpTo(S, n) == UNION {[1..k -> S] : k \in 0..n}

(* Element streams of up to MaxLen elements.                               *)
FreeStreams == SeqsUpTo(Alphabet, MaxLen)

(* Element streams that repeat one counted element MaxPad-2 .. MaxPad      *)
(* times after at most two leading and before at most one trailing element. *)
PadElements == {El(c, "a", 0) : c \in {"Title", "NarrativeText", "Text"}}

PadAlphabet ==
    {El("PageBreak", "", 0)}
    \cup {El(c, "a", 0) : c \in TextCategories}
    \cup {El("Table", "", p) : p \in 1..MaxPage}

PaddedStreams ==
    {pre \o [i \in 1..n |-> e] \o post :
        pre \in SeqsUpTo(PadAlphabet, 2), post \in SeqsUpTo(PadAlphabet, 1),
        e \in PadElements, n \in (MaxPad - 2)..MaxPad}

(* The raw cell sequences a detection response is built from.              *)
TwoRowTable ==
    <<RawCell(TRUE, 1, 1, 1, 1, <<" ", "h", "\n">>),
      RawCell(TRUE, 2, 1, 1, 1, <<"x", " ", "\n", "y">>)>>
ZeroCellTable == <<>>
MalformedTable == <<RawCell(FALSE, 0, 0, 0, 0, <<>>)>>
OverflowTable == <<RawCell(TRUE, 2, 1, 3, 1, <<"Y">>)>>

GoodTables == {TwoRowTable}
BadTables == {ZeroCellTable, MalformedTable, OverflowTable}

(* document.tables: up to MaxTables tables, at most one of which cannot be *)
(* processed.                                                              *)
TableLists ==
    {ts \in SeqsUpTo(GoodTables \cup BadTables, MaxTables) :
        Cardinality({k \in 1..Len(ts) : ts[k] \in BadTables}) <= 1}

Responses ==
    {Response("render_failed", <<>>), Response("detect_failed", <<>>)}
    \cup {Response("ok", ts) : ts \in TableLists}

GridIdle ==
    /\ raw_cells = <<>>
    /\ cells = <<>>
    /\ table = <<>>
    /\ cell_i = 0
    /\ df = NoFrame
    /\ gpc = "idle"

PdIdle ==
    /\ pd_parsed_doc = <<>>
    /\ pd_curr_page = 0
    /\ pd_page_number = 0
    /\ pd_idx = 0
    /\ pd_pc = "idle"
    /\ pd_exc = "none"

CleanIdle ==
    /\ clean_in = NotAStr
    /\ clean_once = NotAStr
    /\ clean_twice = NotAStr
    /\ cpc = "idle"

DocIdle ==
    /\ elements = <<>>
    /\ all_counter = [t \in {} |-> 0]
    /\ parsed_doc = <<>>
    /\ curr_page = 0
    /\ page_number = 0
    /\ idx = 0
    /\ pc = "grid"
    /\ exc = "none"
    /\ output_png = FALSE
    /\ last_resp = NoResponse

Init ==
    /\ elements \in FreeStreams \cup PaddedStreams
    /\ all_counter = [t \in {} |-> 0]
    /\ parsed_doc = <<>>
    /\ curr_page = 0
    /\ page_number = 0
    /\ idx = 0
    /\ pc = "start"
    /\ exc = "none"
    /\ output_png = FALSE
    /\ last_resp = NoResponse
    /\ GridIdle
    /\ PdIdle
    /\ CleanIdle

----------------------------------------------------------------------------
(* main() and create_parsed_dictionary.                                    *)

(* all_counter = prepare_counter(elements=elements) *)
PrepareCounter ==
    /\ pc = "start"
    /\ all_counter' = prepare_counter(elements)
    /\ pc' = "call"
    /\ UNCHANGED <<elements, parsed_doc, curr_page, page_number, idx, exc, output_png,
                   last_resp>>
    /\ UNCHANGED <<gridVars, pdVars, cleanVars>>

(* The three assignments that open create_parsed_dictionary.               *)
Enter ==
    /\ pc = "call"
    /\ parsed_doc' = <<[key |-> 1, value |-> <<>>]>>
    /\ curr_page' = 1
    /\ page_number' = 1
    /\ pc' = "loop"
    /\ UNCHANGED <<elements, all_counter, idx, exc, output_png, last_resp>>
    /\ UNCHANGED <<gridVars, pdVars, cleanVars>>

(* The loop takes the next element when it has the given category.         *)
Takes(cats) ==
    /\ pc = "loop"
    /\ idx < Len(elements)
    /\ elements[idx + 1].category \in cats
    /\ idx' = idx + 1

el == elements[idx + 1]

(* The outcome [exc, doc] of a branch that cannot touch page_number.       *)
Finish(out) ==
    /\ parsed_doc' = out.doc
    /\ exc' = out.exc
    /\ pc' = IF out.exc = "none" THEN "loop" ELSE "raised"

StepPageBreak ==
    /\ Takes({"PageBreak"})
    /\ page_number' = page_number + 1
    /\ curr_page' = page_number + 1
    /\ parsed_doc' = DictSet(parsed_doc, page_number + 1, <<>>)
    /\ UNCHANGED <<elements, all_counter, pc, exc, output_png, last_resp>>
    /\ UNCHANGED <<gridVars, pdVars, cleanVars>>

StepListItem ==
    /\ Takes({"ListItem"})
    /\ Finish(FilteredBranch(parsed_doc, curr_page, el.text, NL, all_counter))
    /\ all_counter' = AfterLookup(all_counter, el.text)
    /\ UNCHANGED <<elements, curr_page, page_number, output_png, last_resp>>
    /\ UNCHANGED <<gridVars, pdVars, cleanVars>>

StepNarrativeText ==
    /\ Takes({"NarrativeText"})
    /\ Finish(FilteredBranch(parsed_doc, curr_page, el.text, SP, all_counter))
    /\ all_counter' = AfterLookup(all_counter, el.text)
    /\ UNCHANGED <<elements, curr_page, page_number, output_png, last_resp>>
    /\ UNCHANGED <<gridVars, pdVars, cleanVars>>

StepTable ==
    /\ Takes({"Table"})
    /\ \E resp \in Responses :
          LET out == TableBranch(parsed_doc, curr_page, resp)
          IN  /\ last_resp' = resp
              /\ page_number' = TablePage(el, page_number)
              /\ output_png' = out.png
              /\ Finish(out)
    /\ UNCHANGED <<elements, all_counter, curr_page>>
    /\ UNCHANGED <<gridVars, pdVars, cleanVars>>

StepText ==
    /\ Takes({"Text"})
    /\ Finish(FilteredBranch(parsed_doc, curr_page, el.text, SP, all_counter))
    /\ all_counter' = AfterLookup(all_counter, el.text)
    /\ UNCHANGED <<elements, curr_page, page_number, output_png, last_resp>>
    /\ UNCHANGED <<gridVars, pdVars, cleanVars>>

StepTitle ==
    /\ Takes({"Title"})
    /\ Finish(TitleBranch(parsed_doc, curr_page, page_number, el.text, all_counter))
    /\ all_counter' = IF page_number = 1 THEN all_counter
                      ELSE AfterLookup(all_counter, el.text)
    /\ UNCHANGED <<elements, curr_page, page_number, output_png, last_resp>>
    /\ UNCHANGED <<gridVars, pdVars, cleanVars>>

(* No branch of the if/elif chain matches: the element is passed over.     *)
StepOther ==
    /\ pc = "loop"
    /\ idx < Len(elements)
    /\ elements[idx + 1].category \notin
          {"PageBreak", "ListItem", "NarrativeText", "Table", "Text", "Title"}
    /\ idx' = idx + 1
    /\ UNCHANGED <<elements, all_counter, parsed_doc, curr_page, page_number, pc, exc,
                   output_png, last_resp>>
    /\ UNCHANGED <<gridVars, pdVars, cleanVars>>

(* The pruning comprehension and the return.                               *)
Return ==
    /\ pc = "loop"
    /\ idx = Len(elements)
    /\ parsed_doc' = Prune(parsed_doc)
    /\ pc' = "returned"
    /\ UNCHANGED <<elements, all_counter, curr_page, page_number, idx, exc, output_png,
                   last_resp>>
    /\ UNCHANGED <<gridVars, pdVars, cleanVars>>

Next ==
    \/ PrepareCounter
    \/ Enter
    \/ StepPageBreak
    \/ StepListItem
    \/ StepNarrativeText
    \/ StepTable
    \/ StepText
    \/ StepTitle
    \/ StepOther
    \/ Return

Spec == Init /\ [][Next]_vars

----------------------------------------------------------------------------
(* The table reconstruction on its own: parse_cells followed by            *)
(* create_expanded_dataframe, one loop iteration per step.                 *)

Spans == {1, 2}

(* The text of the i-th record of a response: records carry distinct texts, *)
(* with the whitespace the detector leaves around them.                    *)
CellText(i) ==
    IF i = 1 THEN <<" ", "x">> ELSE IF i = 2 THEN <<"y", "\n">> ELSE <<"z", ">", "w">>

Geometries ==
    {<<TRUE, r, c, rs, cs>> : r \in 1..MaxDim, c \in 1..MaxDim, rs \in Spans, cs \in Spans}
    \cup {<<FALSE, 0, 0, 0, 0>>}

RawCellSeqs ==
    {[i \in 1..Len(g) |-> RawCell(g[i][1], g[i][2], g[i][3], g[i][4], g[i][5], CellText(i))] :
        g \in SeqsUpTo(Geometries, MaxCells)}

InitGrid ==
    /\ elements = <<>>
    /\ all_counter = [t \in {} |-> 0]
    /\ parsed_doc = <<>>
    /\ curr_page = 0
    /\ page_number = 0
    /\ idx = 0
    /\ pc = "grid"
    /\ exc = "none"
    /\ output_png = FALSE
    /\ last_resp = NoResponse
    /\ raw_cells \in RawCellSeqs
    /\ cells = <<>>
    /\ table = <<>>
    /\ cell_i = 0
    /\ df = NoFrame
    /\ gpc = "parse"
    /\ PdIdle
    /\ CleanIdle

gridFrame == <<elements, all_counter, parsed_doc, curr_page, page_number, idx, pc,
               output_png, last_resp, raw_cells, pdVars, cleanVars>>

(* parsed_cells = parse_cells(raw_cells) *)
GridParse ==
    /\ gpc = "parse"
    /\ LET out == parse_cells(raw_cells)
       IN  /\ cells' = out.cells
           /\ exc' = out.exc
           /\ gpc' = IF out.exc = "none" THEN "init" ELSE "raised"
    /\ UNCHANGED <<table, cell_i, df>>
    /\ UNCHANGED gridFrame

(* max_row, max_col and the grid of empty strings.                         *)
GridInit ==
    /\ gpc = "init"
    /\ IF cells = <<>>
       THEN /\ exc' = "ValueError"
            /\ gpc' = "raised"
            /\ UNCHANGED table
       ELSE /\ table' = EmptyTable(max_row(cells), max_col(cells))
            /\ gpc' = "fill"
            /\ UNCHANGED exc
    /\ UNCHANGED <<cells, cell_i, df>>
    /\ UNCHANGED gridFrame

(* One iteration of `for cell in cells`.                                   *)
GridFill ==
    /\ gpc = "fill"
    /\ cell_i < Len(cells)
    /\ LET out == ApplyCell(table, cells[cell_i + 1])
       IN  /\ table' = out.table
           /\ exc' = out.exc
           /\ gpc' = IF out.exc = "none" THEN "fill" ELSE "raised"
    /\ cell_i' = cell_i + 1
    /\ UNCHANGED <<cells, df>>
    /\ UNCHANGED gridFrame

(* The DataFrame, its header row and the return.                           *)
GridSplit ==
    /\ gpc = "fill"
    /\ cell_i = Len(cells)
    /\ df' = SplitHeader(table)
    /\ gpc' = "done"
    /\ UNCHANGED <<cells, table, cell_i, exc>>
    /\ UNCHANGED gridFrame

NextGrid ==
    \/ GridParse
    \/ GridInit
    \/ GridFill
    \/ GridSplit

SpecGrid == InitGrid /\ [][NextGrid]_vars

----------------------------------------------------------------------------
(* clean_text on its own: applied once, then to its own result.            *)

Chars == {"a", " ", "\n", "\t"}

CleanInputs == {PyStr(str) : str \in SeqsUpTo(Chars, MaxStr)} \cup {NotAStr}

InitClean ==
    /\ DocIdle
    /\ GridIdle
    /\ PdIdle
    /\ clean_in \in CleanInputs
    /\ clean_once = NotAStr
    /\ clean_twice = NotAStr
    /\ cpc = "first"

cleanFrame == <<elements, all_counter, parsed_doc, curr_page, page_number, idx, pc, exc,
                output_png, last_resp, gridVars, pdVars, clean_in>>

CleanOnce ==
    /\ cpc = "first"
    /\ clean_once' = clean_text(clean_in)
    /\ cpc' = "second"
    /\ UNCHANGED clean_twice
    /\ UNCHANGED cleanFrame

CleanTwice ==
    /\ cpc = "second"
    /\ clean_twice' = clean_text(clean_once)
    /\ cpc' = "done"
    /\ UNCHANGED clean_once
    /\ UNCHANGED cleanFrame

NextClean ==
    \/ CleanOnce
    \/ CleanTwice

SpecClean == InitClean /\ [][NextClean]_vars

----------------------------------------------------------------------------
(* The assembler of parse_document.py beside the assembler of utils.py, on *)
(* element streams without a Table element.  Both read the same elements   *)
(* and the same counter; each has its own document, page key, page number  *)
(* and position.  The Table branch of parse_document.py (Textractor's      *)
(* to_pandas().to_html()) is outside these streams.                        *)

(* all_counter[el.text] < 10 and all_counter[el.text] != 0, the lower test *)
(* left out.                                                               *)
PD_Keep_AllowsZero(count) == count < RepeatLimit

(* all_counter[el.text] < 10 and all_counter[el.text] != 0 *)
PD_Keep(count) == count < RepeatLimit /\ count # 0

(* parsed_doc[curr_page] += el.text; parsed_doc[curr_page] += sep *)
PD_AppendText(doc, cp, text, sep) ==
    IF text = None THEN [exc |-> "TypeError", doc |-> doc]
    ELSE [exc |-> "none",
          doc |-> DictAppend(DictAppend(doc, cp, StrTok(text)), cp, StrTok(sep))]

PD_FilteredBranch(doc, cp, text, sep, counter) ==
    IF PD_Keep(CounterGet(counter, text)) THEN PD_AppendText(doc, cp, text, sep)
    ELSE [exc |-> "none", doc |-> doc]

PD_TitleBranch(doc, cp, pn, text, counter) ==
    IF pn = 1 THEN PD_AppendText(doc, cp, text, NL)
    ELSE PD_FilteredBranch(doc, cp, text, NL, counter)

(* parsed_doc = {k:v for k,v in parsed_doc.items() if v} *)
PD_Prune(doc) == SelectSeq(doc, LAMBDA item : item.value # <<>>)

TableFree(es) == \A i \in 1..Len(es) : es[i].category # "Table"

TableFreeStreams == {es \in FreeStreams \cup PaddedStreams : TableFree(es)}

InitEquiv ==
    /\ elements \in TableFreeStreams
    /\ all_counter = [t \in {} |-> 0]
    /\ parsed_doc = <<>>
    /\ curr_page = 0
    /\ page_number = 0
    /\ idx = 0
    /\ pc = "start"
    /\ exc = "none"
    /\ output_png = FALSE
    /\ last_resp = NoResponse
    /\ pd_parsed_doc = <<>>
    /\ pd_curr_page = 0
    /\ pd_page_number = 0
    /\ pd_idx = 0
    /\ pd_pc = "call"
    /\ pd_exc = "none"
    /\ GridIdle
    /\ CleanIdle

pdFrame ==
    <<elements, all_counter, parsed_doc, curr_page, page_number, idx, pc, exc,
      output_png, last_resp, gridVars, cleanVars>>

(* The three assignments that open create_parsed_dictionary, called with   *)
(* the counter prepare_counter returned.                                   *)
PD_Enter ==
    /\ pd_pc = "call"
    /\ pc # "start"
    /\ pd_parsed_doc' = <<[key |-> 1, value |-> <<>>]>>
    /\ pd_curr_page' = 1
    /\ pd_page_number' = 1
    /\ pd_pc' = "loop"
    /\ UNCHANGED <<pd_idx, pd_exc>>
    /\ UNCHANGED pdFrame

PD_Takes(cats) ==
    /\ pd_pc = "loop"
    /\ pd_idx < Len(elements)
    /\ elements[pd_idx + 1].category \in cats
    /\ pd_idx' = pd_idx + 1

pd_el == elements[pd_idx + 1]

PD_Finish(out) ==
    /\ pd_parsed_doc' = out.doc
    /\ pd_exc' = out.exc
    /\ pd_pc' = IF out.exc = "none" THEN "loop" ELSE "raised"

PD_StepPageBreak ==
    /\ PD_Takes({"PageBreak"})
    /\ pd_page_number' = pd_page_number + 1
    /\ pd_curr_page' = pd_page_number + 1
    /\ pd_parsed_doc' = DictSet(pd_parsed_doc, pd_page_number + 1, <<>>)
    /\ UNCHANGED <<pd_pc, pd_exc>>
    /\ UNCHANGED pdFrame

PD_StepListItem ==
    /\ PD_Takes({"ListItem"})
    /\ PD_Finish(PD_FilteredBranch(pd_parsed_doc, pd_curr_page, pd_el.text, NL, all_counter))
    /\ UNCHANGED <<pd_curr_page, pd_page_number>>
    /\ UNCHANGED pdFrame

PD_StepNarrativeText ==
    /\ PD_Takes({"NarrativeText"})
    /\ PD_Finish(PD_FilteredBranch(pd_parsed_doc, pd_curr_page, pd_el.text, SP, all_counter))
    /\ UNCHANGED <<pd_curr_page, pd_page_number>>
    /\ UNCHANGED pdFrame

PD_StepText ==
    /\ PD_Takes({"Text"})
    /\ PD_Finish(PD_FilteredBranch(pd_parsed_doc, pd_curr_page, pd_el.text, SP, all_counter))
    /\ UNCHANGED <<pd_curr_page, pd_page_number>>
    /\ UNCHANGED pdFrame

PD_StepTitle ==
    /\ PD_Takes({"Title"})
    /\ PD_Finish(PD_TitleBranch(pd_parsed_doc, pd_curr_page, pd_page_number, pd_el.text,
                                all_counter))
    /\ UNCHANGED <<pd_curr_page, pd_page_number>>
    /\ UNCHANGED pdFrame

(* No branch of the if/elif chain matches: the element is passed over.     *)
PD_StepOther ==
    /\ pd_pc = "loop"
    /\ pd_idx < Len(elements)
    /\ elements[pd_idx + 1].category \notin
          {"PageBreak", "ListItem", "NarrativeText", "Table", "Text", "Title"}
    /\ pd_idx' = pd_idx + 1
    /\ UNCHANGED <<pd_parsed_doc, pd_curr_page, pd_page_number, pd_pc, pd_exc>>
    /\ UNCHANGED pdFrame

PD_Return ==
    /\ pd_pc = "loop"
    /\ pd_idx = Len(elements)
    /\ pd_parsed_doc' = PD_Prune(pd_parsed_doc)
    /\ pd_pc' = "returned"
    /\ UNCHANGED <<pd_curr_page, pd_page_number, pd_idx, pd_exc>>
    /\ UNCHANGED pdFrame

NextEquiv ==
    \/ PrepareCounter
    \/ Enter
    \/ StepPageBreak
    \/ StepListItem
    \/ StepNarrativeText
    \/ StepText
    \/ StepTitle
    \/ StepOther
    \/ Return
    \/ PD_Enter
    \/ PD_StepPageBreak
    \/ PD_StepListItem
    \/ PD_StepNarrativeText
    \/ PD_StepText
    \/ PD_StepTitle
    \/ PD_StepOther
    \/ PD_Return

SpecEquiv == InitEquiv /\ [][NextEquiv]_vars

-----------------------------------------------------------------------------
(* Vocabulary of the properties.                                           *)

CountedSet == {"Title", "Text", "NarrativeText"}

(* How many counted elements of the stream carry the text t.               *)
Occurrences(t) ==
    Cardinality({i \in 1..Len(elements) :
                    elements[i].category \in CountedSet /\ elements[i].text = t})

PageText(doc, k) == doc[CHOOSE i \in 1..Len(doc) : doc[i].key = k].value

KeyOrder(doc) == [i \in 1..Len(doc) |-> doc[i].key]

(* The step appended exactly `toks` to the current page and nothing else.  *)
AppendedOnly(toks) ==
    /\ KeyOrder(parsed_doc') = KeyOrder(parsed_doc)
    /\ \A k \in Keys(parsed_doc) :
          PageText(parsed_doc', k) =
              IF k = curr_page THEN PageText(parsed_doc, k) \o toks
              ELSE PageText(parsed_doc, k)

(* The loop takes an element of one of the categories, with a text.        *)
TakesText(cats) ==
    /\ pc = "loop"
    /\ idx' = idx + 1
    /\ elements[idx + 1].category \in cats
    /\ elements[idx + 1].text # None

EndsWith(s, tail) ==
    /\ Len(s) >= Len(tail)
    /\ SubSeq(s, Len(s) - Len(tail) + 1, Len(s)) = tail

----------------------------------------------------------------------------
(* C1: with the counter built from the same stream, every NarrativeText or *)
(* Text element (that has a text) appends its text and one space to the    *)
(* current page if and only if its text occurs 1 to 9 times among the      *)
(* counted elements; otherwise the step leaves the document as it is.      *)
C1_NarrativeFilter ==
    [][TakesText({"NarrativeText", "Text"}) =>
          IF Occurrences(el.text) \in 1..9
          THEN pc' = "loop" /\ AppendedOnly(<<StrTok(el.text), StrTok(" ")>>)
          ELSE pc' = "loop" /\ parsed_doc' = parsed_doc]_vars

(* A NarrativeText occurring exactly ten times has been passed over at its *)
(* last occurrence, and no page holds it.                                  *)
C1_Witness ==
    /\ pc = "loop"
    /\ idx = Len(elements)
    /\ idx > 0
    /\ elements[idx].category = "NarrativeText"
    /\ elements[idx].text # None
    /\ Occurrences(elements[idx].text) = 10
    /\ \A i \in 1..Len(parsed_doc) : parsed_doc[i].value = <<>>

(* C2: a Title (that has a text) taken while the page number is 1 appends  *)
(* its text and a newline whatever its count; taken while the page number  *)
(* is not 1 it does so if and only if its count is 1 to 9.                 *)
C2_TitleFilter ==
    [][TakesText({"Title"}) =>
          IF page_number = 1 \/ Occurrences(el.text) \in 1..9
          THEN pc' = "loop" /\ AppendedOnly(<<StrTok(el.text), StrTok("\n")>>)
          ELSE pc' = "loop" /\ parsed_doc' = parsed_doc]_vars

(* A Title occurring ten times or more has just been appended, the page    *)
(* number being 1.                                                         *)
C2_Witness ==
    /\ pc = "loop"
    /\ idx > 0
    /\ elements[idx].category = "Title"
    /\ elements[idx].text # None
    /\ Occurrences(elements[idx].text) >= 10
    /\ page_number = 1
    /\ EndsWith(PageText(parsed_doc, curr_page),
                <<StrTok(elements[idx].text), StrTok("\n")>>)

(* C3: the return removes exactly the pages whose string is empty: no      *)
(* returned page is empty, every non-empty page is returned with the same  *)
(* string, nothing else is returned, and the returned keys keep the order  *)
(* in which the pages were created.                                        *)
C3_PruneExact ==
    [][(pc = "loop" /\ pc' = "returned") =>
          /\ \A i \in 1..Len(parsed_doc') : parsed_doc'[i].value # <<>>
          /\ \A i \in 1..Len(parsed_doc) :
                parsed_doc[i].value # <<>> =>
                    /\ parsed_doc[i].key \in Keys(parsed_doc')
                    /\ PageText(parsed_doc', parsed_doc[i].key) = parsed_doc[i].value
          /\ Keys(parsed_doc') \subseteq Keys(parsed_doc)
          /\ Len(parsed_doc') = Cardinality(Keys(parsed_doc'))
          /\ \A i, j \in 1..Len(parsed_doc') :
                i < j => KeyIndex(parsed_doc, parsed_doc'[i].key)
                           < KeyIndex(parsed_doc, parsed_doc'[j].key)]_vars

(* A document of three pages (two page breaks, no table) was returned with *)
(* fewer pages than it had, and with at least two.                         *)
C3_Witness ==
    /\ pc = "returned"
    /\ \A i \in 1..Len(elements) : elements[i].category # "Table"
    /\ Cardinality({i \in 1..Len(elements) : elements[i].category = "PageBreak"}) = 2
    /\ Len(parsed_doc) = 2

(* C4: a failure of the page-render or of the table-detection collaborator *)
(* during a Table element never leaves create_parsed_dictionary: no run is *)
(* ended by such a failure.                                                *)
C4_ServiceFailureContained ==
    ~(pc = "raised" /\ exc \in {"RenderError", "ExternalServiceError"})

(* C5: when the handling of an element has ended, and so when the run has  *)
(* ended, the temporary image output.png does not exist.                   *)
C5_TempImageDeleted == output_png = FALSE

Footprint(cell) ==
    {<<i, j>> \in (cell[1]..(cell[1] + cell[3] - 1)) \X (cell[2]..(cell[2] + cell[4] - 1)) : TRUE}

GridPositions(cs) == (1..max_row(cs)) \X (1..max_col(cs))

(* C6: a cell whose footprint reaches beyond the grid raises no index      *)
(* error; once it is applied the in-bounds positions of its footprint hold *)
(* its text.                                                               *)
C6_SpanClipped ==
    /\ exc # "IndexError"
    /\ (gpc = "fill" /\ cell_i > 0) =>
          \A p \in Footprint(cells[cell_i]) \cap GridPositions(cells) :
              table[p[1]][p[2]] = cells[cell_i][5]

AllInside(cs) == \A k \in 1..Len(cs) : Footprint(cs[k]) \subseteq GridPositions(cs)

Covering(cs, p) == {k \in 1..Len(cs) : p \in Footprint(cs[k])}

LastCovering(cs, p) ==
    IF Covering(cs, p) = {} THEN <<>>
    ELSE cs[CHOOSE k \in Covering(cs, p) : \A m \in Covering(cs, p) : m <= k][5]

(* C7: for a non-empty cell sequence whose footprints lie inside the grid, *)
(* the expansion raises nothing and the finished grid has max(row) rows    *)
(* and max(col) columns, each position holding the text of the last cell   *)
(* in input order whose footprint covers it, or the empty string.          *)
C7_GridIsLastCovering ==
    (gpc \in {"fill", "done", "raised"} /\ cells # <<>> /\ AllInside(cells)) =>
        /\ gpc # "raised"
        /\ (cell_i = Len(cells)) =>
              /\ Len(table) = max_row(cells)
              /\ \A i \in 1..Len(table) : Len(table[i]) = max_col(cells)
              /\ \A p \in GridPositions(cells) : table[p[1]][p[2]] = LastCovering(cells, p)

(* A finished grid with a position two cells cover and a position no cell  *)
(* covers.                                                                 *)
C7_Witness ==
    /\ gpc = "done"
    /\ \E p \in GridPositions(cells) : Cardinality(Covering(cells, p)) = 2
    /\ \E p \in GridPositions(cells) : Covering(cells, p) = {}

(* C8: a cell record parse_cells cannot parse never makes                  *)
(* create_parsed_dictionary raise: no run is ended by the parsing of a     *)
(* cell.                                                                   *)
C8_MalformedCellContained == ~(pc = "raised" /\ exc = "AttributeError")

(* C9: a detected table with zero cells appends nothing and raises         *)
(* nothing: no run is ended by an empty table.                             *)
C9_EmptyTableContained ==
    (pc # "start" /\ pc # "call" /\ last_resp.status = "ok"
        /\ \E k \in 1..Len(last_resp.tables) : last_resp.tables[k] = <<>>)
    => (pc # "raised" \/ exc # "ValueError")

PageBreaksTaken ==
    Cardinality({i \in 1..idx : elements[i].category = "PageBreak"})

(* C10: while the loop runs, the page keys are exactly page_1 .. page_k,   *)
(* k being 1 plus the number of PageBreak elements taken so far.           *)
C10_KeysContiguous ==
    pc = "loop" => Keys(parsed_doc) = 1..(1 + PageBreaksTaken)

KnownCategories == {"PageBreak", "ListItem", "NarrativeText", "Table", "Text", "Title"}

(* C11: an element whose category is none of the six, or whose text is     *)
(* missing, is a no-op: the step raises nothing and leaves the document,   *)
(* the current page key and the page number as they were.                  *)
C11_MalformedIsNoOp ==
    [][(/\ pc = "loop"
        /\ idx' = idx + 1
        /\ \/ el.category \notin KnownCategories
           \/ el.category \in TextCategories /\ el.text = None) =>
          /\ pc' = "loop"
          /\ exc' = "none"
          /\ parsed_doc' = parsed_doc
          /\ curr_page' = curr_page
          /\ page_number' = page_number]_vars

HasRun(str) == \E i \in 1..(Len(str) - 1) : str[i] \in Whitespace /\ str[i + 1] \in Whitespace

(* C12: clean_text applied to its own result changes nothing; the result   *)
(* for a string holds no newline, no two whitespace characters in a row    *)
(* and no whitespace at either end; a non-string comes back unchanged.     *)
C12_CleanIdempotent ==
    /\ cpc = "done" => clean_twice = clean_once
    /\ (cpc \in {"second", "done"} /\ clean_in.isstr) =>
          /\ clean_once.isstr
          /\ \A i \in 1..Len(clean_once.chars) : clean_once.chars[i] # "\n"
          /\ ~HasRun(clean_once.chars)
          /\ clean_once.chars # <<>> =>
                /\ clean_once.chars[1] \notin Whitespace
                /\ clean_once.chars[Len(clean_once.chars)] \notin Whitespace
    /\ (cpc \in {"second", "done"} /\ ~clean_in.isstr) => clean_once = clean_in

(* A string with a newline and a run of whitespace between two words was   *)
(* cleaned twice.                                                          *)
C12_Witness ==
    /\ cpc = "done"
    /\ clean_in.isstr
    /\ HasRun(clean_in.chars)
    /\ \E i \in 1..Len(clean_in.chars) : clean_in.chars[i] = "\n"
    /\ clean_once = PyStr(<<"a", " ", "a">>)

(* The loop takes an element of one of the categories.                     *)
TakesAny(cats) ==
    /\ pc = "loop"
    /\ idx' = idx + 1
    /\ elements[idx + 1].category \in cats

(* C13: a Table element for which the detection reports zero tables        *)
(* appends exactly one newline to the current page: every other page and   *)
(* the current page key stay as they were.                                 *)
C13_ZeroTablesOnlyNewline ==
    [][(TakesAny({"Table"}) /\ last_resp' = Response("ok", <<>>)) =>
          /\ pc' = "loop"
          /\ AppendedOnly(<<StrTok("\n")>>)
          /\ curr_page' = curr_page]_vars

(* A Table with zero detected tables has just been handled on a later page *)
(* while an earlier page holds text.                                       *)
C13_Witness ==
    /\ pc = "loop"
    /\ idx > 0
    /\ elements[idx].category = "Table"
    /\ last_resp = Response("ok", <<>>)
    /\ EndsWith(PageText(parsed_doc, curr_page), <<StrTok("\n")>>)
    /\ \E i \in 1..Len(parsed_doc) :
          parsed_doc[i].key # curr_page /\ parsed_doc[i].value # <<>>

(* C14: the returned frame has row 0 of the grid as its ordered column     *)
(* labels, duplicates in place, and rows 1..N-1 as its data rows in their  *)
(* order; a grid of one row gives the labels and no data row.              *)
C14_HeaderSplit ==
    gpc = "done" =>
        /\ Len(df.columns) = Len(table[1])
        /\ \A j \in 1..Len(table[1]) : df.columns[j] = table[1][j]
        /\ Len(df.rows) = Len(table) - 1
        /\ \A i \in 1..(Len(table) - 1) : df.rows[i] = table[i + 1]

(* A grid of one row and two columns with the same label twice came back   *)
(* as two labels and no data row.                                          *)
C14_Witness ==
    /\ gpc = "done"
    /\ Len(table) = 1
    /\ Len(df.columns) = 2
    /\ df.columns[1] = df.columns[2]
    /\ df.columns[1] # <<>>
    /\ df.rows = <<>>

(* C15: no ListItem, NarrativeText, Text or Title element (with a text)    *)
(* that is tested against the frequency filter has the count 0.            *)
C15_NoZeroCount ==
    [][(/\ pc = "loop"
        /\ idx' = idx + 1
        /\ el.text # None
        /\ \/ el.category \in {"ListItem", "NarrativeText", "Text"}
           \/ el.category = "Title" /\ page_number # 1) =>
          CounterGet(all_counter, el.text) # 0]_vars

IsPrefix(a, b) == Len(a) <= Len(b) /\ SubSeq(b, 1, Len(a)) = a

(* C16: at every step of the loop each existing page key stays and keeps   *)
(* its content as a prefix of its new content.                             *)
C16_ContentOnlyGrows ==
    [][(pc = "loop" /\ pc' \in {"loop", "raised"}) =>
          \A i \in 1..Len(parsed_doc) :
              /\ parsed_doc[i].key \in Keys(parsed_doc')
              /\ IsPrefix(parsed_doc[i].value,
                          PageText(parsed_doc', parsed_doc[i].key))]_vars

(* C17: a Title whose text occurs ten times or more is never appended to a *)
(* page other than page_1.                                                 *)
C17_RepeatedTitleOnlyOnPage1 ==
    [][(TakesText({"Title"}) /\ Occurrences(el.text) >= 10 /\ curr_page # 1) =>
          parsed_doc' = parsed_doc]_vars

(* No element of the given categories lies at positions a..b.              *)
NoneBetween(cats, a, b) == \A m \in a..b : elements[m].category \notin cats

(* The three parts of C18; `barrier` holds the categories that end the     *)
(* reach of a Table element towards the next PageBreak.                    *)
TableOverride(barrier) ==
    /\ TakesAny({"Table"}) =>
          /\ page_number' = el.page_number
          /\ curr_page' = curr_page
    /\ TakesAny(KnownCategories \ {"PageBreak"}) =>
          /\ curr_page' = curr_page
          /\ KeyOrder(parsed_doc') = KeyOrder(parsed_doc)
          /\ \A k \in Keys(parsed_doc) :
                /\ k # curr_page => PageText(parsed_doc', k) = PageText(parsed_doc, k)
                /\ IsPrefix(PageText(parsed_doc, k), PageText(parsed_doc', k))
    /\ TakesAny({"PageBreak"}) =>
          \A j \in 1..idx :
              (elements[j].category = "Table" /\ NoneBetween(barrier, j + 1, idx)) =>
                  /\ curr_page' = elements[j].page_number + 1
                  /\ curr_page' \in Keys(parsed_doc')
                  /\ PageText(parsed_doc', curr_page') = <<>>

(* C18 as stated: a Table sets the page number to its metadata.page_number *)
(* and leaves the current page key; its text and all text up to the next   *)
(* PageBreak go to the key that was current; the next PageBreak makes the  *)
(* key page_<metadata.page_number + 1>.                                    *)
C18_AsStated == [][TableOverride({"PageBreak"})]_vars

(* C18, amended: the same, the next PageBreak making the key               *)
(* page_<metadata.page_number + 1> when no other Table element is taken    *)
(* between the Table and that PageBreak.                                   *)
C18_TableOverride == [][TableOverride({"PageBreak", "Table"})]_vars

(* A PageBreak right after a Table whose metadata disagreed with the       *)
(* running page number has made the key after the Table's page.            *)
C18_Witness ==
    /\ pc = "loop"
    /\ idx >= 2
    /\ elements[idx].category = "PageBreak"
    /\ elements[idx - 1].category = "Table"
    /\ curr_page = elements[idx - 1].page_number + 1
    /\ curr_page # 1 + PageBreaksTaken

(* C19: no step of the assembly changes the counter: it keeps the keys and *)
(* the counts prepare_counter gave it.                                     *)
C19_CounterReadOnly ==
    [][pc = "loop" => all_counter' = all_counter]_vars

(* A ListItem whose text is no key of the counter has just been tested.    *)
C19_Witness ==
    /\ pc = "loop"
    /\ idx > 0
    /\ elements[idx].category = "ListItem"
    /\ elements[idx].text # None
    /\ elements[idx].text \notin DOMAIN all_counter

Running == {"loop", "raised", "returned"}

(* C20: on a stream without a Table element, whenever the two assemblers   *)
(* have taken the same number of elements they hold the same page number   *)
(* and current page key, one has raised exactly if the other has, and at   *)
(* the same point of their code they hold the same document: the same page *)
(* contents in the loop and the same pruned document once returned.        *)
C20_AssemblersEquivalent ==
    (pc \in Running /\ pd_pc \in Running /\ idx = pd_idx) =>
        /\ page_number = pd_page_number
        /\ curr_page = pd_curr_page
        /\ exc = pd_exc
        /\ (pc = "raised") <=> (pd_pc = "raised")
        /\ pc = pd_pc => parsed_doc = pd_parsed_doc

(* Both assemblers have returned the same document, kept text and pruned a *)
(* page, from a stream with a Title whose text occurs ten times or more.   *)
C20_Witness ==
    /\ pc = "returned"
    /\ pd_pc = "returned"
    /\ pd_parsed_doc # <<>>
    /\ pd_parsed_doc = parsed_doc
    /\ pd_page_number >= 2
    /\ Len(pd_parsed_doc) < pd_page_number
    /\ \E i \in 1..Len(elements) :
          /\ elements[i].category = "Title"
          /\ Occurrences(elements[i].text) >= RepeatLimit

====
